---- MODULE Spec2Model ----
(***************************************************************************)
(* Model of extract_and_upload.py: the expiry cache (load / save), the     *)
(* enrichment of prize entries with fetched voucher data, the skip-fetch   *)
(* and force-refresh modes of main, URL deduplication for the reports and  *)
(* the grouping / sorting policy.                                          *)
(*                                                                         *)
(* Text is modelled structurally.  The cache file is a sequence of lines   *)
(* (the pieces between "\n"), each line a non-empty sequence of fields     *)
(* (the pieces between "\t"); <<>> is the empty text, which is also what   *)
(* a missing file reads as.  Fields are either "" or tokens without any    *)
(* whitespace, so str.strip() on the whole text removes exactly the empty  *)
(* leading and trailing fields together with their separators.             *)
(***************************************************************************)
EXTENDS Integers, Sequences, FiniteSets, TLC

\* ------------------------------------------------------------------ bounds
MaxBatch == 2       \* prizes in one enrichment batch
MaxPrizes == 2      \* prizes in one source record
MaxFlat == 4        \* entries handed to _sort_and_group_prizes on their own

\* ------------------------------------------------------------- value sets
\* The URLs of the model in the order sorted() gives them.  "" is the link
\* the block parser yields for a blank link line.
UrlOrder == << "", "ex.com/x", "txp.rs/a", "txp.rs/b" >>
Urls == { UrlOrder[k] : k \in 1..Len(UrlOrder) }
UrlRank(u) == CHOOSE k \in 1..Len(UrlOrder) : UrlOrder[k] = u
\* "txp.rs" in url
IsTxp(u) == u \in { "txp.rs/a", "txp.rs/b" }

NONE == "<None>"                      \* Python None
USED == "used-stamp"                  \* the marker string returned when a used stamp is found
Dates == { "2024.06.01", "2025.01.01" }

EmptyMap == << >>                     \* the empty dict (a function with empty domain)

\* ------------------------------------------------------------- variables
VARIABLES
    file,        \* content of the cache file
    pc,          \* "idle", "enrich", "done", "killed"
    mode,        \* "none", "normal", "force", "skip"
    batch,       \* the links of the prizes in iteration order
    idx,         \* position of the next prize to enrich
    cache,       \* the in-memory mapping of the running enrichment
    updated,     \* the updated flag of enrich_prizes_with_expiry
    out,         \* the (expiry, used) pair written to each processed prize
    fetchCalls,  \* calls of fetch_voucher_info in this run
    saveCalls,   \* calls of save_expiry_cache in this run
    failed,      \* URLs whose network request failed in this run
    fileAtStart, \* the cache file as it was when the run started
    loadedAtStart, \* the mapping the run started from
    entries,     \* the source records handed to the report builders
    flat,        \* build_html: the deduplicated list before it is arranged
    arranged,    \* the list _sort_and_group_prizes returned
    txt,         \* build_txt_url_list: the URL lines
    rpc          \* "off", "collected", "html", "txt", "flat", "arranged"

cacheVars == << file, pc, mode, batch, idx, cache, updated, out,
                fetchCalls, saveCalls, failed, fileAtStart, loadedAtStart >>
reportVars == << entries, flat, arranged, txt, rpc >>
vars == << cacheVars, reportVars >>

\* ------------------------------------------------------------ text strip
Front(s) == SubSeq(s, 1, Len(s) - 1)

RECURSIVE RStripText(_)
RStripText(t) ==
    IF t = << >> THEN << >>
    ELSE LET l == t[Len(t)] IN
         IF l[Len(l)] # "" THEN t
         ELSE IF Len(l) > 1 THEN RStripText(Append(Front(t), Front(l)))
         ELSE RStripText(Front(t))

RECURSIVE LStripText(_)
LStripText(t) ==
    IF t = << >> THEN << >>
    ELSE LET l == t[1] IN
         IF l[1] # "" THEN t
         ELSE IF Len(l) > 1 THEN LStripText(<< Tail(l) >> \o Tail(t))
         ELSE LStripText(Tail(t))

\* str.strip() of the whole text
StripText(t) == LStripText(RStripText(t))

\* ------------------------------------------------------------ cache store
Put(m, k, v) == [ x \in (DOMAIN m) \cup {k} |-> IF x = k THEN v ELSE m[x] ]

\* variant: a line needs all three fields to be taken
RECURSIVE LoadLines_needs3(_, _)
LoadLines_needs3(lines, m) ==
    IF lines = << >> THEN m
    ELSE LET l == lines[1] IN
         IF Len(l) >= 3
         THEN LoadLines_needs3(Tail(lines), Put(m, l[1], << l[2], l[3] >>))
         ELSE LoadLines_needs3(Tail(lines), m)

RECURSIVE LoadLines(_, _)
LoadLines(lines, m) ==
    IF lines = << >> THEN m
    ELSE LET l == lines[1] IN
         IF Len(l) >= 2
         THEN LoadLines(Tail(lines),
                        Put(m, l[1], << l[2], IF Len(l) > 2 THEN l[3] ELSE "" >>))
         ELSE LoadLines(Tail(lines), m)

load_expiry_cache(t) == LoadLines(StripText(t), EmptyMap)

\* sorted(cache.keys())
RECURSIVE SortedKeys(_)
SortedKeys(S) ==
    IF S = {} THEN << >>
    ELSE LET u == CHOOSE x \in S : \A y \in S : UrlRank(x) <= UrlRank(y)
         IN << u >> \o SortedKeys(S \ {u})

CacheLine(url, v) == IF v[2] # "" THEN << url, v[1], v[2] >> ELSE << url, v[1] >>

save_expiry_cache(m) ==
    LET ks == SortedKeys(DOMAIN m) IN [ k \in 1..Len(ks) |-> CacheLine(ks[k], m[ks[k]]) ]

\* ---------------------------------------------------------------- fetcher
\* What the network can answer for one GET: a failure, or a page in which the
\* expiry probe finds a date or nothing and the used probe finds a stamp or not.
Pages == { << "ok", e, s >> : e \in Dates \cup {NONE}, s \in {"", USED} }
Responses == { << "fail", NONE, "" >> } \cup Pages

fetch_voucher_info(url, resp) ==
    IF ~IsTxp(url) THEN << NONE, "" >>
    ELSE IF resp[1] = "ok" THEN << resp[2], resp[3] >>
    ELSE << NONE, "" >>

\* expiry if expiry else ""
Coerce(e) == IF e = NONE THEN "" ELSE e

\* ------------------------------------------------------------------ runs
Batches == UNION { [ 1..n -> Urls ] : n \in 0..MaxBatch }

InitCache ==
    /\ file = << >>
    /\ pc = "idle"
    /\ mode = "none"
    /\ batch = << >>
    /\ idx = 1
    /\ cache = EmptyMap
    /\ updated = FALSE
    /\ out = << >>
    /\ fetchCalls = 0
    /\ saveCalls = 0
    /\ failed = {}
    /\ fileAtStart = << >>
    /\ loadedAtStart = EmptyMap
    /\ entries = << >>
    /\ flat = << >>
    /\ arranged = << >>
    /\ txt = << >>
    /\ rpc = "off"

\* variant: the skip-fetch branch records its defaults and writes the cache
SkipFetchRun_saves ==
    /\ UNCHANGED reportVars
    /\ pc = "idle"
    /\ \E b \in Batches :
         LET c == load_expiry_cache(file)
             d == [ u \in (DOMAIN c) \cup { b[k] : k \in 1..Len(b) } |->
                      IF u \in DOMAIN c THEN c[u] ELSE << "", "" >> ]
         IN
         /\ batch' = b
         /\ cache' = d
         /\ out' = [ k \in 1..Len(b) |-> d[b[k]] ]
         /\ idx' = Len(b) + 1
         /\ loadedAtStart' = c
         /\ file' = save_expiry_cache(d)
    /\ saveCalls' = 1
    /\ mode' = "skip"
    /\ pc' = "done"
    /\ fileAtStart' = file
    /\ UNCHANGED << updated, fetchCalls, failed >>

\* main, skip-fetch branch: cache-only enrichment of every prize
SkipFetchRun ==
    /\ UNCHANGED reportVars
    /\ pc = "idle"
    /\ \E b \in Batches :
         LET c == load_expiry_cache(file) IN
         /\ batch' = b
         /\ cache' = c
         /\ out' = [ k \in 1..Len(b) |->
                       IF b[k] \in DOMAIN c THEN c[b[k]] ELSE << "", "" >> ]
         /\ idx' = Len(b) + 1
         /\ loadedAtStart' = c
    /\ mode' = "skip"
    /\ pc' = "done"
    /\ fileAtStart' = file
    /\ UNCHANGED << file, updated, fetchCalls, saveCalls, failed >>

\* variant: the cache is loaded under force_refresh too
EnrichStart_loads ==
    /\ UNCHANGED reportVars
    /\ pc = "idle"
    /\ \E m \in {"normal", "force"}, b \in Batches :
         LET c == load_expiry_cache(file) IN
         /\ mode' = m
         /\ batch' = b
         /\ cache' = c
         /\ loadedAtStart' = c
    /\ pc' = "enrich"
    /\ idx' = 1
    /\ updated' = FALSE
    /\ out' = << >>
    /\ fileAtStart' = file
    /\ UNCHANGED << file, fetchCalls, saveCalls, failed >>

\* enrich_prizes_with_expiry, entry: load the cache unless force_refresh
EnrichStart ==
    /\ UNCHANGED reportVars
    /\ pc = "idle"
    /\ \E m \in {"normal", "force"}, b \in Batches :
         LET c == IF m = "force" THEN EmptyMap ELSE load_expiry_cache(file) IN
         /\ mode' = m
         /\ batch' = b
         /\ cache' = c
         /\ loadedAtStart' = c
    /\ pc' = "enrich"
    /\ idx' = 1
    /\ updated' = FALSE
    /\ out' = << >>
    /\ fileAtStart' = file
    /\ UNCHANGED << file, fetchCalls, saveCalls, failed >>

\* variant: a cache hit sets the updated flag
EnrichHit_marks ==
    /\ UNCHANGED reportVars
    /\ pc = "enrich"
    /\ idx <= Len(batch)
    /\ batch[idx] \in DOMAIN cache /\ mode # "force"
    /\ out' = Append(out, cache[batch[idx]])
    /\ idx' = idx + 1
    /\ updated' = TRUE
    /\ UNCHANGED << file, pc, mode, batch, cache, fetchCalls, saveCalls,
                    failed, fileAtStart, loadedAtStart >>

\* loop body, cache hit: copy the cached pair
EnrichHit ==
    /\ UNCHANGED reportVars
    /\ pc = "enrich"
    /\ idx <= Len(batch)
    /\ batch[idx] \in DOMAIN cache /\ mode # "force"
    /\ out' = Append(out, cache[batch[idx]])
    /\ idx' = idx + 1
    /\ UNCHANGED << file, pc, mode, batch, cache, updated, fetchCalls, saveCalls,
                    failed, fileAtStart, loadedAtStart >>

\* variant: every fetched result is written through to the file
EnrichFetch_writes ==
    /\ UNCHANGED reportVars
    /\ pc = "enrich"
    /\ idx <= Len(batch)
    /\ ~(batch[idx] \in DOMAIN cache /\ mode # "force")
    /\ \E resp \in Responses :
         LET url == batch[idx]
             r   == fetch_voucher_info(url, resp)
             v   == << Coerce(r[1]), r[2] >>
         IN  /\ IsTxp(url) \/ resp[1] = "fail"
             /\ out' = Append(out, v)
             /\ cache' = Put(cache, url, v)
             /\ file' = save_expiry_cache(Put(cache, url, v))
             /\ failed' = IF IsTxp(url) /\ resp[1] = "fail"
                          THEN failed \cup {url} ELSE failed
    /\ updated' = TRUE
    /\ fetchCalls' = fetchCalls + 1
    /\ idx' = idx + 1
    /\ UNCHANGED << pc, mode, batch, saveCalls, fileAtStart, loadedAtStart >>

\* loop body, else branch: fetch, annotate, record in the mapping
EnrichFetch ==
    /\ UNCHANGED reportVars
    /\ pc = "enrich"
    /\ idx <= Len(batch)
    /\ ~(batch[idx] \in DOMAIN cache /\ mode # "force")
    /\ \E resp \in Responses :
         LET url == batch[idx]
             r   == fetch_voucher_info(url, resp)
             v   == << Coerce(r[1]), r[2] >>
         IN  /\ IsTxp(url) \/ resp[1] = "fail"      \* no request leaves for a foreign URL
             /\ out' = Append(out, v)
             /\ cache' = Put(cache, url, v)
             /\ failed' = IF IsTxp(url) /\ resp[1] = "fail"
                          THEN failed \cup {url} ELSE failed
    /\ updated' = TRUE
    /\ fetchCalls' = fetchCalls + 1
    /\ idx' = idx + 1
    /\ UNCHANGED << file, pc, mode, batch, saveCalls, fileAtStart, loadedAtStart >>

\* after the loop: persist if updated
EnrichSave ==
    /\ UNCHANGED reportVars
    /\ pc = "enrich"
    /\ idx > Len(batch)
    /\ IF updated
       THEN /\ file' = save_expiry_cache(cache)
            /\ saveCalls' = saveCalls + 1
       ELSE UNCHANGED << file, saveCalls >>
    /\ pc' = "done"
    /\ UNCHANGED << mode, batch, idx, cache, updated, out, fetchCalls, failed,
                    fileAtStart, loadedAtStart >>

\* the process is interrupted somewhere inside enrich_prizes_with_expiry
Interrupt ==
    /\ UNCHANGED reportVars
    /\ pc = "enrich"
    /\ pc' = "killed"
    /\ UNCHANGED << file, mode, batch, idx, cache, updated, out, fetchCalls,
                    saveCalls, failed, fileAtStart, loadedAtStart >>

\* the process ends; nothing but the cache file survives
EndRun ==
    /\ UNCHANGED reportVars
    /\ pc \in {"done", "killed"}
    /\ pc' = "idle"
    /\ mode' = "none"
    /\ batch' = << >>
    /\ idx' = 1
    /\ cache' = EmptyMap
    /\ updated' = FALSE
    /\ out' = << >>
    /\ fetchCalls' = 0
    /\ saveCalls' = 0
    /\ failed' = {}
    /\ fileAtStart' = file
    /\ loadedAtStart' = EmptyMap
    /\ UNCHANGED file

NextCache ==
    \/ SkipFetchRun
    \/ EnrichStart
    \/ EnrichHit
    \/ EnrichFetch
    \/ EnrichSave
    \/ Interrupt
    \/ EndRun

Spec == InitCache /\ [][NextCache]_vars

\* ============================================================== reports
Titles == { "A", "B" }
FAR == "9999.99.99"
\* Python compares the expiry strings character by character; for the
\* fixed-width strings of the model that is their position in this list.
StrOrder == << "2024.06.01", "2025.01.01", "9999.99.99" >>
StrRank(x) == CHOOSE k \in 1..Len(StrOrder) : StrOrder[k] = x

\* p.get("expiry"): NONE when the prize has no expiry key
HasExpiry(p) == p.expiry # NONE /\ p.expiry # ""
\* p.get("expiry") or FAR
SortKey(p) == IF HasExpiry(p) THEN p.expiry ELSE FAR

\* variant: an equal key is placed before the entries already there
InsertByKey_unstable(sorted, x) ==
    LET n == Cardinality({ k \in 1..Len(sorted) : StrRank(sorted[k][1]) < StrRank(x[1]) })
    IN  SubSeq(sorted, 1, n) \o << x >> \o SubSeq(sorted, n + 1, Len(sorted))

\* list.sort / sorted on << key, value >> pairs: stable, ascending by key
InsertByKey(sorted, x) ==
    LET n == Cardinality({ k \in 1..Len(sorted) : StrRank(sorted[k][1]) <= StrRank(x[1]) })
    IN  SubSeq(sorted, 1, n) \o << x >> \o SubSeq(sorted, n + 1, Len(sorted))

RECURSIVE StableSort(_)
StableSort(pairs) ==
    IF pairs = << >> THEN << >>
    ELSE InsertByKey(StableSort(Front(pairs)), pairs[Len(pairs)])

Values(pairs) == [ k \in 1..Len(pairs) |-> pairs[k][2] ]

\* the keys of the defaultdict in insertion order
RECURSIVE TitleOrder(_, _)
TitleOrder(f, seen) ==
    IF f = << >> THEN << >>
    ELSE IF f[1].title \in seen THEN TitleOrder(Tail(f), seen)
    ELSE << f[1].title >> \o TitleOrder(Tail(f), seen \cup { f[1].title })

ItemsOf(f, t) == SelectSeq(f, LAMBDA p : p.title = t)

\* groups[title].sort(key=lambda p: p.get("expiry") or FAR)
SortItems(items) ==
    Values(StableSort([ k \in 1..Len(items) |-> << SortKey(items[k]), items[k] >> ]))

group_min_expiry(items) ==
    LET dated == { k \in 1..Len(items) : HasExpiry(items[k]) } IN
    IF dated = {} THEN FAR
    ELSE items[CHOOSE k \in dated :
                 \A j \in dated : StrRank(items[k].expiry) <= StrRank(items[j].expiry)].expiry

RECURSIVE Concat(_)
Concat(lists) == IF lists = << >> THEN << >> ELSE lists[1] \o Concat(Tail(lists))

_sort_and_group_prizes(f) ==
    LET titles == TitleOrder(f, {})
        groups == [ k \in 1..Len(titles) |-> SortItems(ItemsOf(f, titles[k])) ]
        sorted_pairs ==
            StableSort([ k \in 1..Len(groups) |-> << group_min_expiry(groups[k]), groups[k] >> ])
    IN  Concat(Values(sorted_pairs))

\* str.strip() of a link as it stands in a source file
RawLinks == { "", "  ", "txp.rs/a", " txp.rs/a ", "txp.rs/b" }
strip(r) == CASE r = "  " -> ""
              [] r = " txp.rs/a " -> "txp.rs/a"
              [] OTHER -> r
\* the links parse_telegram_section can put into a prize
Links == { strip(r) : r \in RawLinks }

\* variant: a later prize with a link already seen replaces the earlier one
RECURSIVE DedupHtml_last(_, _)
DedupHtml_last(ps, seen) ==
    IF ps = << >> THEN << >>
    ELSE IF \E k \in 2..Len(ps) : ps[k].link = ps[1].link
         THEN DedupHtml_last(Tail(ps), seen)
         ELSE << ps[1] >> \o DedupHtml_last(Tail(ps), seen)

\* build_html, lines 160-168: first-seen deduplication by link
RECURSIVE DedupHtml(_, _)
DedupHtml(ps, seen) ==
    IF ps = << >> THEN << >>
    ELSE IF ps[1].link \in seen THEN DedupHtml(Tail(ps), seen)
    ELSE << ps[1] >> \o DedupHtml(Tail(ps), seen \cup { ps[1].link })

WithSendDate(rec) ==
    [ k \in 1..Len(rec.prizes) |->
        [ num |-> rec.prizes[k].num, link |-> rec.prizes[k].link,
          title |-> rec.prizes[k].title, expiry |-> rec.prizes[k].expiry,
          send_date |-> rec.send_date ] ]

HtmlFlat(recs) ==
    DedupHtml(Concat([ r \in 1..Len(recs) |-> WithSendDate(recs[r]) ]), {})

\* build_txt_url_list: stripped, non-empty, first-seen
RECURSIVE DedupTxt(_, _)
DedupTxt(ps, seen) ==
    IF ps = << >> THEN << >>
    ELSE LET link == strip(ps[1].link) IN
         IF link # "" /\ link \notin seen
         THEN << link >> \o DedupTxt(Tail(ps), seen \cup { link })
         ELSE DedupTxt(Tail(ps), seen)

build_txt_url_list(recs) ==
    DedupTxt(Concat([ r \in 1..Len(recs) |-> recs[r].prizes ]), {})

\* ------------------------------------------------------ report inputs
SendDates == << "2025-03-01", "2025-03-02" >>
\* the expiry enrichment left on the prizes of a link
ExpiryOf(l) == CASE l = "txp.rs/a" -> "2025.01.01"
                 [] l = "txp.rs/b" -> "2024.06.01"
                 [] OTHER -> ""
PrizeLists ==
    UNION { { [ k \in 1..n |-> [ num |-> k, link |-> c[k][1], title |-> c[k][2],
                                 expiry |-> ExpiryOf(c[k][1]) ] ] :
              c \in [ 1..n -> Links \X Titles ] } : n \in 0..MaxPrizes }
EntryInputs ==
    { [ r \in 1..Len(SendDates) |-> [ send_date |-> SendDates[r], prizes |-> ps[r] ] ] :
      ps \in [ 1..Len(SendDates) -> PrizeLists ] }

InitReport ==
    /\ file = << >>
    /\ pc = "off"
    /\ mode = "none"
    /\ batch = << >>
    /\ idx = 1
    /\ cache = EmptyMap
    /\ updated = FALSE
    /\ out = << >>
    /\ fetchCalls = 0
    /\ saveCalls = 0
    /\ failed = {}
    /\ fileAtStart = << >>
    /\ loadedAtStart = EmptyMap
    /\ entries \in EntryInputs
    /\ flat = << >>
    /\ arranged = << >>
    /\ txt = << >>
    /\ rpc = "collected"

\* build_html up to the arranged list it renders
BuildHtml ==
    /\ rpc = "collected"
    /\ flat' = HtmlFlat(entries)
    /\ arranged' = _sort_and_group_prizes(HtmlFlat(entries))
    /\ rpc' = "html"
    /\ UNCHANGED << entries, txt >>
    /\ UNCHANGED cacheVars

BuildTxt ==
    /\ rpc = "html"
    /\ txt' = build_txt_url_list(entries)
    /\ rpc' = "txt"
    /\ UNCHANGED << entries, flat, arranged >>
    /\ UNCHANGED cacheVars

NextReport ==
    \/ BuildHtml
    \/ BuildTxt

SpecReport == InitReport /\ [][NextReport]_vars

\* ------------------------------------------------------- sort inputs
FlatLinks == << "txp.rs/1", "txp.rs/2", "txp.rs/3", "txp.rs/4", "txp.rs/5", "txp.rs/6" >>
FlatInputs ==
    UNION { { [ k \in 1..n |-> [ num |-> k, link |-> FlatLinks[k], title |-> c[k][1],
                                 expiry |-> c[k][2] ] ] :
              c \in [ 1..n -> Titles \X ({ NONE, "" } \cup Dates) ] } : n \in 0..MaxFlat }

InitSort ==
    /\ file = << >>
    /\ pc = "off"
    /\ mode = "none"
    /\ batch = << >>
    /\ idx = 1
    /\ cache = EmptyMap
    /\ updated = FALSE
    /\ out = << >>
    /\ fetchCalls = 0
    /\ saveCalls = 0
    /\ failed = {}
    /\ fileAtStart = << >>
    /\ loadedAtStart = EmptyMap
    /\ entries = << >>
    /\ flat \in FlatInputs
    /\ arranged = << >>
    /\ txt = << >>
    /\ rpc = "flat"

Arrange ==
    /\ rpc = "flat"
    /\ arranged' = _sort_and_group_prizes(flat)
    /\ rpc' = "arranged"
    /\ UNCHANGED << entries, flat, txt >>
    /\ UNCHANGED cacheVars

NextSort == Arrange

SpecSort == InitSort /\ [][NextSort]_vars

\* =================================================================== claims
Range(s) == { s[k] : k \in 1..Len(s) }
FileUrls(f) == { f[k][1] : k \in 1..Len(f) }
\* the mapping the lines of a cache file describe, read field by field
Described(f) == [ u \in FileUrls(f) |->
    LET k == CHOOSE j \in 1..Len(f) :
                 f[j][1] = u /\ \A i \in (j+1)..Len(f) : f[i][1] # u
    IN << f[k][2], IF Len(f[k]) > 2 THEN f[k][3] ELSE "" >> ]
RunDone(m) == pc = "done" /\ mode = m

\* C1: a URL whose request failed in a normal run is still a cache miss when
\* the next run loads the cache, so the next run fetches it again.
C1_FailureIsRetried ==
    RunDone("normal") => \A u \in failed : u \notin DOMAIN load_expiry_cache(file)

\* C2: without force-refresh, a non-empty expiry or used status that the
\* persisted cache holds for a URL is held, unchanged, by every later persisted
\* cache.
Keeps(m1, m2) ==
    \A u \in DOMAIN m1 :
        /\ m1[u][1] # "" => (u \in DOMAIN m2 /\ m2[u][1] = m1[u][1])
        /\ m1[u][2] # "" => (u \in DOMAIN m2 /\ m2[u][2] = m1[u][2])
C2_CacheMonotonic ==
    [][ mode # "force" =>
          /\ Keeps(load_expiry_cache(file), load_expiry_cache(file'))
          /\ Keeps(Described(file), Described(file')) ]_vars
C2_Witness ==
    /\ RunDone("normal") /\ saveCalls = 1 /\ file # fileAtStart
    /\ \E u \in DOMAIN load_expiry_cache(fileAtStart) :
          /\ load_expiry_cache(fileAtStart)[u][1] # ""
          /\ load_expiry_cache(fileAtStart)[u][2] # ""
          /\ u \in Range(batch)

\* C3: a skip-fetch run calls neither the fetcher nor save, leaves the cache
\* file as it was, and gives every prize the cached pair of its URL, or
\* ("", "") when the loaded cache has no such URL.
C3_SkipFetch ==
    RunDone("skip") =>
        /\ fetchCalls = 0
        /\ saveCalls = 0
        /\ file = fileAtStart
        /\ Len(out) = Len(batch)
        /\ \A k \in 1..Len(batch) :
              out[k] = IF batch[k] \in DOMAIN load_expiry_cache(fileAtStart)
                       THEN load_expiry_cache(fileAtStart)[batch[k]]
                       ELSE << "", "" >>
C3_Witness ==
    /\ RunDone("skip")
    /\ \E i, j \in 1..Len(batch) :
          /\ batch[i] \in DOMAIN load_expiry_cache(file) /\ out[i] # << "", "" >>
          /\ batch[j] \notin DOMAIN load_expiry_cache(file)

\* C4 as stated: save is called at most once, and exactly when processing the
\* batch changed the mapping relative to the cache content on disk at the start
\* (a batch without prizes processes nothing and changes nothing).
C4_SaveIffChangedFromDisk ==
    (pc = "done" /\ mode \in {"normal", "force"}) =>
        /\ saveCalls <= 1
        /\ saveCalls = 1 <=> (batch # << >> /\ cache # load_expiry_cache(fileAtStart))
\* C4 amended: save is called at most once, and exactly when the batch changed
\* the in-memory mapping the run started from (the loaded cache, or the empty
\* mapping under force-refresh), which is exactly when something was fetched.
C4_SaveIffChangedInMemory ==
    (pc = "done" /\ mode \in {"normal", "force"}) =>
        /\ saveCalls <= 1
        /\ saveCalls = 1 <=> cache # loadedAtStart
        /\ saveCalls = 1 <=> fetchCalls > 0
        /\ saveCalls = 0 => file = fileAtStart
C4_Witness ==
    /\ pc = "done" /\ mode = "force" /\ saveCalls = 1
    /\ cache = load_expiry_cache(fileAtStart)
    /\ cache # EmptyMap

\* C5: loading what save wrote from a loaded valid cache file gives the
\* mapping the file describes.
C5_RoundTrip ==
    load_expiry_cache(save_expiry_cache(load_expiry_cache(file))) = Described(file)

\* C6 as stated: a force-refresh run does not load the old cache, fetches every
\* prize, and leaves a persisted cache with exactly the URLs of the batch.
C6_ForceRebuilds ==
    RunDone("force") =>
        /\ loadedAtStart = EmptyMap
        /\ fetchCalls = Len(batch)
        /\ FileUrls(file) = Range(batch)
\* C6 amended: the same for a batch with at least one prize; with no prize
\* nothing is fetched or written and the old cache file stays.
C6_ForceRebuildsNonEmpty ==
    RunDone("force") =>
        /\ loadedAtStart = EmptyMap
        /\ fetchCalls = Len(batch)
        /\ batch # << >> => (saveCalls = 1 /\ FileUrls(file) = Range(batch))
        /\ batch = << >> => (saveCalls = 0 /\ file = fileAtStart)
C6_Witness ==
    /\ RunDone("force") /\ batch # << >>
    /\ \E u \in FileUrls(fileAtStart) : u \notin Range(batch) /\ u \notin FileUrls(file)
    /\ \E u \in FileUrls(fileAtStart) : u \in Range(batch)

\* C9: until the save step at the end of the batch the cache file is what it
\* was when the run started, in normal and force-refresh mode alike, also when
\* the run is interrupted.
C9_FileUntouchedBeforeSave ==
    pc \in {"enrich", "killed"} => file = fileAtStart
C9_Witness ==
    /\ pc = "killed" /\ mode = "force" /\ fetchCalls >= 2
    /\ file # << >> /\ cache # load_expiry_cache(file)

\* C10: after a normal run every URL of the batch is a hit in the reloaded
\* cache with the pair the run gave its prizes, so a second run on the same
\* batch fetches nothing, writes nothing and assigns the same pairs.
C10_ConvergesAfterOneRun ==
    RunDone("normal") =>
        \A k \in 1..Len(batch) :
            /\ batch[k] \in DOMAIN load_expiry_cache(file)
            /\ load_expiry_cache(file)[batch[k]] = out[k]

\* ---------------------------------------------------------------- C7
Positions == UNION { { << r, j >> : j \in 1..Len(entries[r].prizes) } : r \in 1..Len(entries) }
Before(p, q) == p[1] < q[1] \/ (p[1] = q[1] /\ p[2] < q[2])
PrizeAt(p) == entries[p[1]].prizes[p[2]]
FirstOf(l) == CHOOSE p \in Positions :
                 /\ PrizeAt(p).link = l
                 /\ \A q \in Positions : PrizeAt(q).link = l => ~Before(q, p)
AllLinks == { PrizeAt(p).link : p \in Positions }
SamePrizes(a, b) == Len(a) = Len(b) /\ \A k \in 1..Len(a) : \E j \in 1..Len(b) : a[k] = b[j]

\* C7: the flattened report list has one entry per distinct URL, namely its
\* first occurrence in record order then entry order, with the send date of
\* that record; the URL list has each distinct non-empty URL once, in the same
\* first-seen order.
C7_FirstSeenWins ==
    rpc = "txt" =>
        /\ Len(flat) = Cardinality(AllLinks)
        /\ { flat[k].link : k \in 1..Len(flat) } = AllLinks
        /\ \A k \in 1..Len(flat) :
              LET p == FirstOf(flat[k].link) IN
              /\ flat[k].num = PrizeAt(p).num
              /\ flat[k].title = PrizeAt(p).title
              /\ flat[k].send_date = entries[p[1]].send_date
        /\ \A i, j \in 1..Len(flat) :
              i < j => Before(FirstOf(flat[i].link), FirstOf(flat[j].link))
        /\ SamePrizes(arranged, flat)
        /\ Len(txt) = Cardinality(AllLinks \ {""})
        /\ Range(txt) = AllLinks \ {""}
        /\ \A i, j \in 1..Len(txt) : i < j => Before(FirstOf(txt[i]), FirstOf(txt[j]))
C7_Witness ==
    /\ rpc = "txt"
    /\ Len(entries[1].prizes) = 2 /\ Len(entries[2].prizes) = 2
    /\ entries[1].prizes[2].link = "txp.rs/a" /\ entries[1].prizes[2].title = "A"
    /\ entries[2].prizes[1].link = "txp.rs/a" /\ entries[2].prizes[1].title = "B"
    /\ entries[1].prizes[1].link = "" /\ entries[2].prizes[2].link = "txp.rs/b"
    /\ Len(flat) = 3 /\ Len(txt) = 2

\* ---------------------------------------------------------------- C8
PosIn(e) == CHOOSE k \in 1..Len(flat) : flat[k] = e
Dated(e) == e.expiry \in Dates
SameExpiry(a, b) == (Dated(a) /\ Dated(b) /\ a.expiry = b.expiry) \/ (~Dated(a) /\ ~Dated(b))
Members(t) == { k \in 1..Len(flat) : flat[k].title = t }
\* the least expiry of a title's dated members as a rank; a title without a
\* dated member ranks after every date
MinRank(t) ==
    LET ds == { StrRank(flat[k].expiry) : k \in { m \in Members(t) : Dated(flat[m]) } }
    IN  IF ds = {} THEN Len(StrOrder) + 1 ELSE CHOOSE r \in ds : \A q \in ds : r <= q
FirstMember(t) == CHOOSE k \in Members(t) : \A m \in Members(t) : k <= m

\* C8: the arrangement is a permutation of the input with equal titles
\* contiguous, each title group ascending by expiry with undated entries last,
\* groups ascending by their least expiry with undated groups last, and every
\* tie in input order.
C8_Arrangement ==
    rpc = "arranged" =>
        /\ SamePrizes(arranged, flat)
        /\ \A i, j, k \in 1..Len(arranged) :
              (i < j /\ j < k /\ arranged[i].title = arranged[k].title)
                  => arranged[j].title = arranged[i].title
        /\ \A i, j \in 1..Len(arranged) :
              (i < j /\ arranged[i].title = arranged[j].title) =>
                  /\ Dated(arranged[j]) =>
                        /\ Dated(arranged[i])
                        /\ StrRank(arranged[i].expiry) <= StrRank(arranged[j].expiry)
                  /\ SameExpiry(arranged[i], arranged[j])
                        => PosIn(arranged[i]) < PosIn(arranged[j])
        /\ \A i, j \in 1..Len(arranged) :
              (i < j /\ arranged[i].title # arranged[j].title) =>
                  /\ MinRank(arranged[i].title) <= MinRank(arranged[j].title)
                  /\ MinRank(arranged[i].title) = MinRank(arranged[j].title)
                        => FirstMember(arranged[i].title) < FirstMember(arranged[j].title)
C8_Witness ==
    /\ rpc = "arranged" /\ Len(flat) = 4
    /\ flat[1].title = "B" /\ ~Dated(flat[1])
    /\ flat[2].title = "A" /\ flat[2].expiry = "2025.01.01"
    /\ flat[3].title = "B" /\ flat[3].expiry = "2025.01.01"
    /\ flat[4].title = "A" /\ flat[4].expiry = "2025.01.01"
    /\ arranged = << flat[3], flat[1], flat[2], flat[4] >>

====
